---- MODULE Spec2Model ----
(***************************************************************************)
(* Model of the ReAct agent control loop of reAct-agent                    *)
(* (agent.ReactAgent, its tool-call parser and the ChatModel it drives).   *)
(*                                                                         *)
(* One Generate invocation is cut at its two suspension points: the call   *)
(* to ChatModel.Generate and the call to Tool.Execute.  A state with       *)
(* pc = "model" has a model call in flight, a state with pc = "tool" has   *)
(* a tool execution in flight.                                             *)
(***************************************************************************)
EXTENDS Integers, Sequences, FiniteSets, TLC

(***************************************************************************)
(* Bounds of the model.                                                    *)
(***************************************************************************)
\* largest step budget passed to WithMaxStep
MaxConfiguredStep == 3
\* Generate invocations served by one agent instance
MaxInvocations == 2
\* user-/system-role answers of the backend plus failing tool outcomes
\* (Execute error, unserialisable result) in one run
MaxOffPath == 2

(***************************************************************************)
(* Program constants.                                                      *)
(***************************************************************************)
DefaultMaxStep == 8
\* name aliases (tool, name, function.name) and as many argument aliases
AliasCount == 3

(***************************************************************************)
(* schema.Role and schema.Message.                                         *)
(***************************************************************************)
RoleUser == "user"
RoleSystem == "system"
RoleAssistant == "assistant"
RoleTool == "tool"

Role == {RoleUser, RoleSystem, RoleAssistant, RoleTool}

(***************************************************************************)
(* Message contents.  A content string is represented by what              *)
(* json.Unmarshal into a map[string]interface{} sees in it:                *)
(*   kind "text"    not valid JSON                                         *)
(*   kind "scalar"  valid JSON that is neither an object nor null          *)
(*   kind "null"    the JSON null (unmarshals into a nil map, no error)    *)
(*   kind "object"  a JSON object; the six keys the parser looks at are    *)
(*                  fields, each absent, a string, a mapping or of some    *)
(*                  other JSON type                                        *)
(* text/arg/chars carry the literal text, a %s argument and an escaped     *)
(* character sequence of strings the agent builds itself.                  *)
(***************************************************************************)
Abs == [t |-> "absent", v |-> ""]
Str(s) == [t |-> "str", v |-> s]
Map(m) == [t |-> "map", v |-> m]
Oth == [t |-> "other", v |-> ""]

NoFn == [t |-> "absent", name |-> Abs]
Fn(n) == [t |-> "map", name |-> n]
OthFn == [t |-> "other", name |-> Abs]

Plain(s) ==
    [kind |-> "text", text |-> s, arg |-> "", chars |-> <<>>,
     tool |-> Abs, name |-> Abs, function |-> NoFn,
     arguments |-> Abs, args |-> Abs, input |-> Abs]

Obj == [Plain("") EXCEPT !.kind = "object"]

Message(r, c) == [Role |-> r, Content |-> c]

NoMsg == [Role |-> "none", Content |-> Plain("")]

(***************************************************************************)
(* parseToolCall.                                                          *)
(***************************************************************************)
NilArgs == [t |-> "nil", v |-> ""]

ParseNameFirstPresent(raw) ==
    IF raw.tool.t = "str" THEN raw.tool.v
    ELSE IF raw.name.t = "str" THEN raw.name.v
    ELSE IF raw.function.t = "map" /\ raw.function.name.t = "str"
    THEN raw.function.name.v
    ELSE ""

ParseName(raw) ==
    LET n1 == IF raw.tool.t = "str" THEN raw.tool.v ELSE ""
        n2 == IF raw.name.t = "str" /\ n1 = "" THEN raw.name.v ELSE n1
        n3 == IF raw.function.t = "map" /\ n2 = ""
              THEN IF raw.function.name.t = "str"
                   THEN raw.function.name.v ELSE n2
              ELSE n2
    IN  n3

ParseArgsNoInput(raw) ==
    IF raw.arguments.t = "map" THEN raw.arguments
    ELSE IF raw.args.t = "map" THEN raw.args
    ELSE [t |-> "nil", v |-> ""]

ParseArgs(raw) ==
    IF raw.arguments.t = "map" THEN raw.arguments
    ELSE IF raw.args.t = "map" THEN raw.args
    ELSE IF raw.input.t = "map" THEN raw.input
    ELSE NilArgs

NoCall == [ok |-> FALSE, Name |-> "", Args |-> NilArgs]

parseToolCall(content) ==
    IF content.kind \in {"object", "null"}
    THEN IF ParseName(content) # ""
         THEN [ok |-> TRUE, Name |-> ParseName(content),
               Args |-> ParseArgs(content)]
         ELSE NoCall
    ELSE NoCall

(***************************************************************************)
(* escapeString: three ReplaceAll passes over the characters of s.         *)
(***************************************************************************)
BACKSLASH == "bs"
QUOTE == "dq"
NEWLINE == "nl"
LETTER_N == "n"
LETTER_E == "e"

RECURSIVE ReplaceAll(_, _, _)
ReplaceAll(s, old, new) ==
    IF s = <<>> THEN <<>>
    ELSE IF Head(s) = old THEN new \o ReplaceAll(Tail(s), old, new)
    ELSE <<Head(s)>> \o ReplaceAll(Tail(s), old, new)

escapeString(s) ==
    LET s1 == ReplaceAll(s, BACKSLASH, <<BACKSLASH, BACKSLASH>>)
        s2 == ReplaceAll(s1, QUOTE, <<BACKSLASH, QUOTE>>)
        s3 == ReplaceAll(s2, NEWLINE, <<BACKSLASH, LETTER_N>>)
    IN  s3

(***************************************************************************)
(* Strings the agent and its collaborators produce.                        *)
(***************************************************************************)
ModelNotInitialized == Plain("model not initialized")
EmptyMessageReturned == Plain("empty message returned")
InvalidToolCallPayload == Plain("invalid tool call payload")
MaxStepsReached == Plain("max steps reached")
ToolNotFound(n) == [Plain("tool '%s' not found") EXCEPT !.arg = n]
ErrorPayload(e) ==
    [Obj EXCEPT !.text = "{\"error\":\"%s\"}", !.chars = escapeString(e)]
Marshalled(result) == [Obj EXCEPT !.text = result]
FallbackPayload(result) ==
    [Obj EXCEPT !.text = "{\"result\":\"%v\"}", !.arg = result]

(***************************************************************************)
(* The environment: what callers pass in, what the model backend answers   *)
(* and how a tool execution ends.                                          *)
(***************************************************************************)
ToolSets == {<<>>, <<"calculator">>, <<"search", "calculator">>}

Inputs == {<<>>, <<Message(RoleUser, Plain("What is 2 + 2?"))>>}

ContextCanceled == "context canceled"

ModelErrors == {"failed to send request", ContextCanceled}

\* the three payload shapes of a call of tool x with argument mapping a
ShapeTool(x, a) == [Obj EXCEPT !.tool = Str(x), !.arguments = Map(a)]
ShapeName(x, a) == [Obj EXCEPT !.name = Str(x), !.args = Map(a)]
ShapeFunction(x, a) == [Obj EXCEPT !.function = Fn(Str(x)), !.input = Map(a)]

\* tool-call payloads of the backend driving the loop
LoopPayloads ==
    { ShapeTool("calculator", "{expression:2+2}"),
      ShapeName("weather", "{city:x}"),
      [Obj EXCEPT !.tool = Str("")],
      Plain("Action: calculator") }

\* tool-call payloads of the backend exercising the parser's aliases
ShapePayloads ==
    UNION { {ShapeTool(x, a), ShapeName(x, a), ShapeFunction(x, a)} :
            x \in {"calculator", "weather"}, a \in {"{a:1}", "{b:2}"} }
    \cup { [Obj EXCEPT !.function = OthFn, !.arguments = Oth],
           [Plain("") EXCEPT !.kind = "null"],
           [Plain("7") EXCEPT !.kind = "scalar"] }

\* tool-call payloads of the backend exercising the alias priority: every
\* combination of absent, empty, non-string and valid values of the three
\* name aliases and the three argument aliases, and content that is no
\* JSON object
AliasPayloads ==
    { [Obj EXCEPT !.tool = t, !.name = n, !.function = f,
                  !.arguments = a1, !.args = a2, !.input = a3] :
        t \in {Abs, Str(""), Str("calculator"), Oth},
        n \in {Abs, Str(""), Str("search"), Oth},
        f \in {NoFn, OthFn, Fn(Abs), Fn(Str("")), Fn(Str("weather"))},
        a1 \in {Abs, Oth, Map("{a:1}")},
        a2 \in {Abs, Oth, Map("{b:2}")},
        a3 \in {Abs, Map("{c:3}")} }
    \cup { [Plain("") EXCEPT !.kind = "null"],
           [Plain("7") EXCEPT !.kind = "scalar"],
           Plain("Action: calculator") }

Repertoires == {LoopPayloads, ShapePayloads}

ErrResp(e) == [kind |-> "err", err |-> e, msg |-> NoMsg]
NilResp == [kind |-> "nil", err |-> "", msg |-> NoMsg]
NoResp == [kind |-> "none", err |-> "", msg |-> NoMsg]
MsgResp(m) == [kind |-> "msg", err |-> "", msg |-> m]

\* results of ChatModel.Generate: (nil, err), (nil, nil) or (msg, nil)
Responses(payloads) ==
    { ErrResp(e) : e \in ModelErrors }
    \cup { NilResp }
    \cup { MsgResp(Message(RoleTool, c)) : c \in payloads }
    \cup { MsgResp(Message(r, Plain("4"))) :
           r \in {RoleAssistant, RoleUser, RoleSystem} }

\* errors of QWenModelClient.Generate
QWenErrors ==
    ModelErrors \cup { "API request failed with status",
                       "failed to decode response",
                       "no choices returned from API" }

\* content of the first choice of a QWen answer: plain text, or text that
\* is itself a tool-call payload
QWenContents == {Plain("4")} \cup LoopPayloads

QWenResponsesKeepingRole ==
    { ErrResp(e) : e \in QWenErrors }
    \cup { MsgResp(Message(r, c)) :
           r \in {RoleAssistant, RoleTool}, c \in QWenContents }

\* results of QWenModelClient.Generate: (nil, err), or the content of the
\* first choice under the assistant role
QWenResponses ==
    { ErrResp(e) : e \in QWenErrors }
    \cup { MsgResp(Message(RoleAssistant, c)) : c \in QWenContents }

ExecError == <<LETTER_E, QUOTE, BACKSLASH, NEWLINE>>

\* results of Tool.Execute: (result, nil) with a result json.Marshal
\* accepts or rejects, or (nil, err)
Outcomes ==
    { [err |-> <<>>, result |-> "{result:4}", marshals |-> TRUE],
      [err |-> <<>>, result |-> "NaN", marshals |-> FALSE],
      [err |-> ExecError, result |-> "", marshals |-> TRUE] }

(***************************************************************************)
(* State.                                                                  *)
(***************************************************************************)
VARIABLES
    conf,        \* r.conf: MaxStep, Model (nil or not), Tools (names)
    messages,    \* r.state.messages
    pc,          \* "idle", "model", "tool", "returned"
    step,        \* loop counter of Generate
    call,        \* result of parseToolCall in the current iteration
    selected,    \* index in conf.Tools of the tool being executed, 0 if none
    ret,         \* what the last Generate returned
    sent,        \* history handed to the model call in flight / last made
    initLen,     \* length of the history when the loop was entered
    log,         \* events of the current invocation, in order
    parsed,      \* <<content, call>> of every parseToolCall of the invocation
    lastResp,    \* the model's answer to the latest model call
    lastOutcome, \* how the latest tool execution ended
    callers,     \* Generate invocations the callers of this agent still make
    others,      \* user-/system-role answers given so far
    fails,       \* failing tool outcomes so far
    repertoire,  \* tool-call payloads the backend answers with
    input,       \* the history argument of the current invocation
    modelTools,  \* c.tools of the ChatModel: the catalog last bound
    cancelled,   \* the caller's context is done
    atCancel,    \* history and log lengths when the context was cancelled
    \* HTTPClient.SendStream: the transport worker
    source,      \* chunks resp.Body.Read still delivers, in order
    terminal,    \* how the byte source ends: "EOF" or "err"
    tpc,         \* "off", "read", "send", "closeErrs", "closeOut", "done"
    tchunk,      \* the chunk the worker is sending on out
    errs,        \* buffer of the transport error channel (capacity 1)
    errsClosed,  \* close(errs) has run
    outClosed,   \* close(out) has run
    \* QWenModelClient.Stream: the decoder worker
    dpc,         \* "off", "select", "parked", "woken", "lines", "done"
    dwake,       \* the select case a parked decoder was woken with
    buf,         \* bytes.Buffer of the decoder
    msgCount,    \* fragments buffered in msgChan
    emitted,     \* payloads of all fragments sent on msgChan, in order
    msgClosed,   \* number of close(msgChan) executed
    errChan,     \* errors sent on errChan, in order
    errClosed,   \* number of close(errChan) executed
    chunksRead,  \* chunks the decoder has received
    doneSeen,    \* the decoder has read a complete "data: [DONE]" line
    \* the consumer of the stream
    consuming,   \* the consumer still receives from msgChan
    cancelWaiting, \* the context was cancelled while the decoder was parked
    whole        \* all chunks of the byte source, as given at the start

agentVars == <<conf, messages, pc, step, call, selected, ret, sent, initLen,
               log, parsed, lastResp, lastOutcome, callers, others, fails,
               repertoire, input, modelTools>>

ctxVars == <<cancelled, atCancel>>

streamVars == <<source, terminal, tpc, tchunk, errs, errsClosed, outClosed,
                dpc, dwake, buf, msgCount, emitted, msgClosed, errChan,
                errClosed, chunksRead, doneSeen, consuming, cancelWaiting,
                whole>>

vars == <<agentVars, ctxVars, streamVars>>

NoWake == [case |-> "none", ok |-> FALSE, chunk |-> <<>>, err |-> ""]
NoCancel == [len |-> 0, log |-> 0]

\* no stream has been opened
StreamOff ==
    /\ source = <<>>
    /\ terminal = "EOF"
    /\ tpc = "off"
    /\ tchunk = <<>>
    /\ errs = <<>>
    /\ errsClosed = FALSE
    /\ outClosed = FALSE
    /\ dpc = "off"
    /\ dwake = NoWake
    /\ buf = <<>>
    /\ msgCount = 0
    /\ emitted = <<>>
    /\ msgClosed = 0
    /\ errChan = <<>>
    /\ errClosed = 0
    /\ chunksRead = 0
    /\ doneSeen = FALSE
    /\ consuming = TRUE
    /\ cancelWaiting = FALSE
    /\ whole = <<>>

NoRet == [msg |-> NoMsg, err |-> "", state |-> FALSE]
NoOutcome == [err |-> <<>>, result |-> "", marshals |-> TRUE]

(***************************************************************************)
(* NewReactAgent: apply the options, default MaxStep 0 to 8.               *)
(***************************************************************************)
RECURSIVE ApplyOpts(_, _)
ApplyOpts(c, opts) ==
    IF opts = <<>> THEN c
    ELSE ApplyOpts([c EXCEPT !.MaxStep = Head(opts)], Tail(opts))

NewReactAgent(c, opts) ==
    LET ra == ApplyOpts(c, opts)
    IN  IF ra.MaxStep = 0 THEN [ra EXCEPT !.MaxStep = DefaultMaxStep] ELSE ra

Configs ==
    [MaxStep : 0..MaxConfiguredStep, Model : {"nil", "chat"}, Tools : ToolSets]

Options == {<<>>} \cup { <<k>> : k \in -1..MaxConfiguredStep }

AgentInit(cfgs, optss, rep, n) ==
    /\ \E c \in cfgs, opts \in optss : conf = NewReactAgent(c, opts)
    /\ messages = <<>>
    /\ pc = "idle"
    /\ step = 0
    /\ call = NoCall
    /\ selected = 0
    /\ ret = NoRet
    /\ sent = <<>>
    /\ initLen = 0
    /\ log = <<>>
    /\ parsed = <<>>
    /\ lastResp = NoResp
    /\ lastOutcome = NoOutcome
    /\ callers = n
    /\ others = 0
    /\ fails = 0
    /\ repertoire = rep
    /\ input = <<>>
    /\ modelTools = IF conf.Model = "nil" THEN <<>> ELSE conf.Tools
    /\ cancelled = FALSE
    /\ atCancel = NoCancel

InitWith(cfgs, optss, rep, n) ==
    /\ AgentInit(cfgs, optss, rep, n)
    /\ StreamOff

Init == InitWith(Configs, Options, LoopPayloads, 1)

(***************************************************************************)
(* Generate.                                                               *)
(***************************************************************************)
ReturnNilError(m, e, st, lg) ==
    /\ pc' = "returned"
    /\ ret' = [msg |-> m, err |-> "", state |-> st]
    /\ log' = Append(lg, "return")

ReturnAsError(m, e, st, lg) ==
    /\ pc' = "returned"
    /\ ret' = [msg |-> m, err |-> IF e = "" THEN m.Content.text ELSE e,
               state |-> st]
    /\ log' = Append(lg, "return")

\* a return statement of Generate: (message, error, state)
Return(m, e, st, lg) ==
    /\ pc' = "returned"
    /\ ret' = [msg |-> m, err |-> e, state |-> st]
    /\ log' = Append(lg, "return")

IterateInclusive(s, msgs, lg) ==
    /\ step' = s
    /\ IF s <= conf.MaxStep
       THEN /\ pc' = "model"
            /\ sent' = msgs
            /\ log' = Append(lg, "model_call")
            /\ ret' = ret
       ELSE /\ Return(Message(RoleAssistant, MaxStepsReached), "", TRUE, lg)
            /\ sent' = sent

\* the loop header for counter value s: issue the next model call on msgs,
\* or leave the loop and return the "max steps reached" sentinel
Iterate(s, msgs, lg) ==
    /\ step' = s
    /\ IF s < conf.MaxStep
       THEN /\ pc' = "model"
            /\ sent' = msgs
            /\ log' = Append(lg, "model_call")
            /\ ret' = ret
       ELSE /\ Return(Message(RoleAssistant, MaxStepsReached), "", TRUE, lg)
            /\ sent' = sent

\* first index of conf.Tools whose Info().Name equals n, 0 if there is none
Select(tools, n) ==
    IF \E i \in 1..Len(tools) : tools[i] = n
    THEN CHOOSE i \in 1..Len(tools) :
            /\ tools[i] = n
            /\ \A j \in 1..(i - 1) : tools[j] # n
    ELSE 0

\* entry of Generate up to the first model call
GenerateStart(history) ==
    /\ pc \in {"idle", "returned"}
    /\ callers > 0
    /\ callers' = callers - 1
    /\ parsed' = <<>>
    /\ call' = NoCall
    /\ selected' = 0
    /\ lastResp' = NoResp
    /\ lastOutcome' = NoOutcome
    /\ input' = history
    /\ IF conf.Model = "nil"
       THEN /\ Return(Message(RoleAssistant, ModelNotInitialized), "", FALSE,
                      <<>>)
            /\ UNCHANGED <<messages, step, sent, initLen>>
       ELSE /\ messages' = messages \o history
            /\ initLen' = Len(messages')
            /\ Iterate(0, messages', <<>>)
    /\ UNCHANGED <<conf, others, fails, repertoire, modelTools>>
    /\ UNCHANGED <<ctxVars, streamVars>>

\* classification of a model answer by role
IsToolRequest(msg) == msg.Role = RoleTool

IsFinalNever(msg) == FALSE

IsFinalAny(msg) == TRUE

IsFinal(msg) == msg.Role = RoleAssistant

DispatchAsync(sel, msgs, lg) ==
    /\ selected' = sel
    /\ Iterate(step + 1, msgs, lg \o <<"append_req", "tool_call">>)

\* the selected tool's Execute is called; the loop waits for its return
Dispatch(sel, msgs, lg) ==
    /\ pc' = "tool"
    /\ selected' = sel
    /\ log' = lg \o <<"append_req", "tool_call">>
    /\ UNCHANGED <<step, sent, ret>>

\* the model call returns: classification of the answer, up to the call of
\* Tool.Execute, the next model call or the return of Generate
ModelReturn(resp) ==
    /\ pc = "model"
    /\ resp \in IF conf.Model = "qwen" THEN QWenResponses
                 ELSE Responses(repertoire)
    \* the request carries ctx: a call under a cancelled context fails with
    \* the context's error, and only such a call does
    /\ cancelled <=> (resp.kind = "err" /\ resp.err = ContextCanceled)
    /\ lastResp' = resp
    /\ LET lg == Append(log, "model_ret")
           msg == resp.msg
           c == parseToolCall(msg.Content)
           sel == Select(conf.Tools, c.Name)
       IN
       IF resp.kind = "err"
       THEN /\ Return(Message(RoleAssistant, Plain(resp.err)), resp.err,
                      FALSE, lg)
            /\ UNCHANGED <<messages, step, call, selected, sent, parsed,
                           others>>
       ELSE IF resp.kind = "nil"
       THEN /\ Return(Message(RoleAssistant, EmptyMessageReturned), "",
                      FALSE, lg)
            /\ UNCHANGED <<messages, step, call, selected, sent, parsed,
                           others>>
       ELSE IF IsToolRequest(msg)
       THEN /\ messages' = Append(messages, msg)
            /\ call' = c
            /\ parsed' = Append(parsed, <<msg.Content, c>>)
            /\ IF ~c.ok \/ c.Name = ""
               THEN /\ Return(Message(RoleAssistant, InvalidToolCallPayload),
                              "", FALSE, Append(lg, "append_req"))
                    /\ selected' = 0
                    /\ UNCHANGED <<step, sent>>
               ELSE IF sel = 0
               THEN /\ Return(Message(RoleAssistant, ToolNotFound(c.Name)),
                              "", FALSE, Append(lg, "append_req"))
                    /\ selected' = 0
                    /\ UNCHANGED <<step, sent>>
               ELSE Dispatch(sel, messages', lg)
            /\ others' = others
       ELSE IF IsFinal(msg)
       THEN /\ messages' = Append(messages, msg)
            /\ Return(msg, "", FALSE, Append(lg, "append_msg"))
            /\ UNCHANGED <<step, call, selected, sent, parsed, others>>
       ELSE /\ others + fails < MaxOffPath
            /\ others' = others + 1
            /\ messages' = Append(messages, msg)
            /\ Iterate(step + 1, messages', Append(lg, "append_msg"))
            /\ UNCHANGED <<call, selected, parsed>>
    /\ UNCHANGED <<conf, initLen, lastOutcome, callers, fails, repertoire>>
    /\ UNCHANGED <<ctxVars, streamVars, input, modelTools>>

ToolContentIgnoringError(o) ==
    IF o.marshals THEN Marshalled(o.result) ELSE FallbackPayload(o.result)

\* the tool content built from what Execute returned
ToolContent(o) ==
    IF o.err # <<>> THEN ErrorPayload(o.err)
    ELSE IF o.marshals THEN Marshalled(o.result)
    ELSE FallbackPayload(o.result)

ToolReturnNoAppend(o) ==
    /\ pc = "tool"
    /\ (o.err # <<>> \/ ~o.marshals) => others + fails < MaxOffPath
    /\ fails' = IF o.err # <<>> \/ ~o.marshals THEN fails + 1 ELSE fails
    /\ lastOutcome' = o
    /\ messages' = messages
    /\ Iterate(step + 1, messages', Append(log, "tool_ret"))
    /\ selected' = 0
    /\ UNCHANGED <<conf, call, initLen, parsed, lastResp, callers, others,
                   repertoire>>
    /\ UNCHANGED <<ctxVars, streamVars, input, modelTools>>

ToolReturnReplace(o) ==
    /\ pc = "tool"
    /\ (o.err # <<>> \/ ~o.marshals) => others + fails < MaxOffPath
    /\ fails' = IF o.err # <<>> \/ ~o.marshals THEN fails + 1 ELSE fails
    /\ lastOutcome' = o
    /\ messages' = [messages EXCEPT
                       ![Len(messages)] = Message(RoleTool, ToolContent(o))]
    /\ Iterate(step + 1, messages', log \o <<"tool_ret", "append_res">>)
    /\ selected' = 0
    /\ UNCHANGED <<conf, call, initLen, parsed, lastResp, callers, others,
                   repertoire>>
    /\ UNCHANGED <<ctxVars, streamVars, input, modelTools>>

\* Tool.Execute returns: the result message is appended and the loop goes on
ToolReturn(o) ==
    /\ pc = "tool"
    /\ (o.err # <<>> \/ ~o.marshals) => others + fails < MaxOffPath
    /\ fails' = IF o.err # <<>> \/ ~o.marshals THEN fails + 1 ELSE fails
    /\ lastOutcome' = o
    /\ messages' = Append(messages, Message(RoleTool, ToolContent(o)))
    /\ Iterate(step + 1, messages', log \o <<"tool_ret", "append_res">>)
    /\ selected' = 0
    /\ UNCHANGED <<conf, call, initLen, parsed, lastResp, callers, others,
                   repertoire>>
    /\ UNCHANGED <<ctxVars, streamVars, input, modelTools>>

\* the caller cancels the context: ctx.Done() becomes ready; a decoder
\* parked in its select is woken with the cancellation case
Cancel ==
    /\ ~cancelled
    /\ \/ pc \in {"model", "tool"}
       \/ dpc \in {"select", "parked", "woken", "lines"}
       \/ tpc \in {"read", "send", "closeErrs", "closeOut"}
    /\ cancelled' = TRUE
    /\ atCancel' = [len |-> Len(messages), log |-> Len(log)]
    /\ cancelWaiting' = (dpc = "parked")
    /\ IF dpc = "parked"
       THEN /\ dpc' = "woken"
            /\ dwake' = [NoWake EXCEPT !.case = "ctx"]
       ELSE UNCHANGED <<dpc, dwake>>
    /\ UNCHANGED <<agentVars, source, terminal, tpc, tchunk, errs,
                   errsClosed, outClosed, buf, msgCount, emitted, msgClosed,
                   errChan, errClosed, chunksRead, doneSeen, consuming,
                   whole>>

\* NewReactAgent constructs a further agent with tool list ts over the
\* ChatModel of this agent: BindTools replaces the model's catalog
NewSecondAgent(ts) ==
    /\ conf.Model # "nil"
    /\ pc \in {"idle", "returned"}
    /\ modelTools # ts
    /\ modelTools' = ts
    /\ UNCHANGED <<conf, messages, pc, step, call, selected, ret, sent,
                   initLen, log, parsed, lastResp, lastOutcome, callers,
                   others, fails, repertoire, input>>
    /\ UNCHANGED <<ctxVars, streamVars>>

Next ==
    \/ \E history \in Inputs : GenerateStart(history)
    \/ \E resp \in Responses(LoopPayloads \cup ShapePayloads) :
          ModelReturn(resp)
    \/ \E o \in Outcomes : ToolReturn(o)

Spec == Init /\ [][Next]_vars

\* the agent of the parser runs: one step per alias shape over both tools,
\* driven by a backend that answers with the alias shapes
InitParse ==
    InitWith({[MaxStep |-> 0, Model |-> "chat",
               Tools |-> <<"calculator", "search">>]},
             {<<AliasCount>>}, ShapePayloads, 1)

SpecParse == InitParse /\ [][Next]_vars

\* one agent instance serving several invocations in turn
InitReuse ==
    InitWith({[MaxStep |-> 1, Model |-> "chat", Tools |-> <<"calculator">>]},
             {<<>>}, LoopPayloads, MaxInvocations)

SpecReuse == InitReuse /\ [][Next]_vars

\* one invocation whose context the caller may cancel while the model call
\* or the tool execution is in flight
InitCancel ==
    InitWith([MaxStep : 1..MaxConfiguredStep, Model : {"chat"},
              Tools : {<<"calculator">>}],
             {<<>>}, LoopPayloads, 1)

NextCancel ==
    \/ \E history \in Inputs : GenerateStart(history)
    \/ \E resp \in Responses(LoopPayloads \cup ShapePayloads) :
          ModelReturn(resp)
    \/ \E o \in Outcomes : ToolReturn(o)
    \/ Cancel

SpecCancel == InitCancel /\ [][NextCancel]_vars

\* the agent of the alias-priority runs: one step, a backend that answers
\* with any of the alias payloads
InitAlias ==
    InitWith({[MaxStep |-> 1, Model |-> "chat",
               Tools |-> <<"calculator", "search">>]},
             {<<>>}, AliasPayloads, 1)

NextAlias ==
    \/ \E history \in Inputs : GenerateStart(history)
    \/ \E resp \in Responses(AliasPayloads) : ModelReturn(resp)
    \/ \E o \in Outcomes : ToolReturn(o)

SpecAlias == InitAlias /\ [][NextAlias]_vars

\* tool lists handed to NewReactAgent, with lists that register a name twice
ToolLists ==
    ToolSets \cup { <<"calculator", "calculator">>,
                    <<"calculator", "search", "calculator">> }

\* one invocation of an agent constructed over any of the tool lists
InitTools ==
    InitWith([MaxStep : 1..MaxConfiguredStep, Model : {"chat"},
              Tools : ToolLists],
             {<<>>}, LoopPayloads, 1)

SpecTools == InitTools /\ [][Next]_vars

\* an agent whose ChatModel is also handed to further agents constructed
\* before or after its invocation
InitShared ==
    InitWith([MaxStep : 1..2, Model : {"chat"}, Tools : ToolSets],
             {<<>>}, LoopPayloads, 1)

NextShared ==
    \/ \E history \in Inputs : GenerateStart(history)
    \/ \E resp \in Responses(LoopPayloads \cup ShapePayloads) :
          ModelReturn(resp)
    \/ \E o \in Outcomes : ToolReturn(o)
    \/ \E ts \in ToolSets : NewSecondAgent(ts)

SpecShared == InitShared /\ [][NextShared]_vars

\* one invocation of an agent whose ChatModel is backed by the QWen client,
\* next to agents over any other backend
InitQWen ==
    InitWith([MaxStep : 1..MaxConfiguredStep, Model : {"qwen", "chat"},
              Tools : ToolSets],
             {<<>>}, LoopPayloads, 1)

NextQWen ==
    \/ \E history \in Inputs : GenerateStart(history)
    \/ \E resp \in Responses(LoopPayloads) \cup QWenResponses :
          ModelReturn(resp)
    \/ \E o \in Outcomes : ToolReturn(o)

SpecQWen == InitQWen /\ [][NextQWen]_vars

\* one invocation in which every model call and every tool execution
\* returns: budgets small enough that tool-role, user-role and system-role
\* answers can fill every iteration, and a negative budget
InitFair ==
    InitWith([MaxStep : 1..MaxOffPath, Model : {"chat"}, Tools : ToolSets],
             {<<>>, <<-1>>}, LoopPayloads, 1)

Fairness ==
    /\ WF_vars(\E resp \in Responses(LoopPayloads \cup ShapePayloads) :
                  ModelReturn(resp))
    /\ WF_vars(\E o \in Outcomes : ToolReturn(o))

SpecFair == InitFair /\ [][Next]_vars /\ Fairness

TypeOK ==
    /\ conf.MaxStep \in Int
    /\ pc \in {"idle", "model", "tool", "returned"}
    /\ step \in Nat
    /\ selected \in 0..Len(conf.Tools)
    /\ \A i \in 1..Len(messages) : messages[i].Role \in Role

(***************************************************************************)
(* Reading the event log of an invocation.                                 *)
(***************************************************************************)
Count(lg, ev) == Cardinality({ i \in 1..Len(lg) : lg[i] = ev })

EndsWith(lg, suffix) ==
    /\ Len(lg) >= Len(suffix)
    /\ SubSeq(lg, Len(lg) - Len(suffix) + 1, Len(lg)) = suffix

ModelCalls == Count(log, "model_call")
ToolExecutions == Count(log, "tool_call")

Returned == pc = "returned"

AssistantAnswer ==
    lastResp.kind = "msg" /\ lastResp.msg.Role = RoleAssistant

(***************************************************************************)
(* C1: for every step budget N >= 1, and N = 8 when none is configured,    *)
(* one Generate invocation makes at most N model calls.                    *)
(***************************************************************************)
UnsetBudgetIsEight ==
    \A c \in Configs, opts \in Options :
        ApplyOpts(c, opts).MaxStep = 0 => NewReactAgent(c, opts).MaxStep = 8

C1_AtMostNModelCalls ==
    /\ UnsetBudgetIsEight
    /\ conf.MaxStep # 0
    /\ conf.MaxStep >= 1 => ModelCalls <= conf.MaxStep

C1_Witness ==
    /\ Returned
    /\ conf.MaxStep = 8
    /\ ModelCalls = 8

(***************************************************************************)
(* C2: an assistant-role answer to the k-th model call is returned as it   *)
(* is with a nil error, is the last message of the history, and is         *)
(* followed by no model call and no tool execution in the invocation.      *)
(***************************************************************************)
C2_AssistantAnswerIsFinal ==
    AssistantAnswer =>
        /\ Returned
        /\ ret.msg = lastResp.msg
        /\ ret.err = ""
        /\ Len(messages) > 0
        /\ messages[Len(messages)] = lastResp.msg
        /\ EndsWith(log, <<"model_ret", "append_msg", "return">>)
        /\ ModelCalls = step + 1
        /\ ModelCalls <= conf.MaxStep

C2_Witness ==
    /\ AssistantAnswer
    /\ Returned
    /\ ModelCalls = 2
    /\ conf.MaxStep = 3
    /\ ret.msg.Role = RoleAssistant

(***************************************************************************)
(* C3: when every model call answers with a request of a registered tool,  *)
(* Generate returns the "max steps reached" sentinel with a nil error      *)
(* after N calls and the history has grown by 2*N messages.                *)
(***************************************************************************)
AllStepsRanATool ==
    /\ conf.Model # "nil"
    /\ conf.MaxStep >= 1
    /\ ToolExecutions = ModelCalls

C3_ToolOnlyRunExhaustsBudget ==
    (Returned /\ AllStepsRanATool) =>
        /\ ModelCalls = conf.MaxStep
        /\ ret.msg = Message(RoleAssistant, MaxStepsReached)
        /\ ret.err = ""
        /\ Len(messages) = initLen + 2 * conf.MaxStep

C3_Witness ==
    /\ Returned
    /\ AllStepsRanATool
    /\ conf.MaxStep = 3
    /\ Len(messages) = initLen + 6

(***************************************************************************)
(* C4: a request of a tool that is not registered ends the turn at once    *)
(* with a non-nil "tool not found" error naming the tool: no tool is       *)
(* executed and no further model call is made.                             *)
(***************************************************************************)
UnregisteredToolRequested ==
    /\ lastResp.kind = "msg"
    /\ lastResp.msg.Role = RoleTool
    /\ lastResp.msg.Content = ShapeName("weather", "{city:x}")

C4_ToolNotFoundIsAnError ==
    UnregisteredToolRequested =>
        /\ Returned
        /\ ret.msg = Message(RoleAssistant, ToolNotFound("weather"))
        /\ ret.err # ""
        /\ EndsWith(log, <<"model_ret", "append_req", "return">>)

(***************************************************************************)
(* C5: whatever way Generate returns, the message it returns has role      *)
(* assistant.                                                              *)
(***************************************************************************)
C5_ReturnsAssistantMessage ==
    Returned => ret.msg.Role = RoleAssistant

C5_Witness ==
    /\ Returned
    /\ UnregisteredToolRequested
    /\ ret.msg.Role = RoleAssistant
    /\ ret.msg.Content = ToolNotFound("weather")

(***************************************************************************)
(* C6: a failed model call ends Generate in that step: the error is        *)
(* returned, no model call and no tool execution follows and nothing is    *)
(* appended to the history after the failure.                              *)
(***************************************************************************)
C6_ModelErrorIsFatal ==
    lastResp.kind = "err" =>
        /\ Returned
        /\ ret.err = lastResp.err
        /\ ret.err # ""
        /\ EndsWith(log, <<"model_call", "model_ret", "return">>)
        /\ messages = sent
        /\ ModelCalls = step + 1

C6_Witness ==
    /\ lastResp.kind = "err"
    /\ Returned
    /\ ret.err = "failed to send request"
    /\ ModelCalls = 2
    /\ ToolExecutions = 1

(***************************************************************************)
(* C7: an empty (nil) model answer, the exhaustion of the step budget and  *)
(* an invalid tool-call payload each end the invocation with a sentinel    *)
(* assistant message and a nil error, without a further model call.        *)
(***************************************************************************)
EmptyAnswer == lastResp.kind = "nil"

InvalidPayloadAnswer ==
    /\ lastResp.kind = "msg"
    /\ lastResp.msg.Role = RoleTool
    /\ lastResp.msg.Content \in
          { Plain("Action: calculator"), [Obj EXCEPT !.tool = Str("")],
            [Obj EXCEPT !.function = OthFn, !.arguments = Oth],
            [Plain("") EXCEPT !.kind = "null"],
            [Plain("7") EXCEPT !.kind = "scalar"] }

BudgetExhausted ==
    /\ conf.Model # "nil"
    /\ pc # "idle"
    /\ step >= conf.MaxStep

C7_SentinelOutcomes ==
    /\ EmptyAnswer =>
          /\ Returned
          /\ ret = [msg |-> Message(RoleAssistant, EmptyMessageReturned),
                    err |-> "", state |-> FALSE]
          /\ EndsWith(log, <<"model_call", "model_ret", "return">>)
    /\ InvalidPayloadAnswer =>
          /\ Returned
          /\ ret = [msg |-> Message(RoleAssistant, InvalidToolCallPayload),
                    err |-> "", state |-> FALSE]
          /\ EndsWith(log, <<"model_call", "model_ret", "append_req",
                             "return">>)
    /\ BudgetExhausted =>
          /\ Returned
          /\ ret = [msg |-> Message(RoleAssistant, MaxStepsReached),
                    err |-> "", state |-> TRUE]
          /\ EndsWith(log, <<"return">>)
          /\ ModelCalls = IF conf.MaxStep > 0 THEN conf.MaxStep ELSE 0

C7_Witness ==
    /\ InvalidPayloadAnswer
    /\ lastResp.msg.Content = [Obj EXCEPT !.tool = Str("")]
    /\ Returned
    /\ ret.err = ""
    /\ ModelCalls = 2

(***************************************************************************)
(* C8: an error of a registered tool's Execute does not end the turn: a    *)
(* tool-role message carrying the error payload is appended and, while     *)
(* step budget remains, the next model call is made on a history that      *)
(* contains it.                                                            *)
(***************************************************************************)
EscapedExecError ==
    <<LETTER_E, BACKSLASH, QUOTE, BACKSLASH, BACKSLASH, BACKSLASH, LETTER_N>>

ExecErrorMessage ==
    Message(RoleTool,
            [Obj EXCEPT !.text = "{\"error\":\"%s\"}",
                        !.chars = EscapedExecError])

ExecuteJustFailed(e) ==
    /\ lastOutcome.err = ExecError
    /\ EndsWith(log, <<"tool_call", "tool_ret", "append_res", e>>)

C8_ToolErrorIsFedBack ==
    \A e \in {"model_call", "return"} :
        ExecuteJustFailed(e) =>
            /\ Len(messages) >= 2
            /\ messages[Len(messages)] = ExecErrorMessage
            /\ step < conf.MaxStep =>
                  /\ pc = "model"
                  /\ sent = messages
            /\ step >= conf.MaxStep =>
                  /\ Returned
                  /\ ret.err = ""
                  /\ ret.msg = Message(RoleAssistant, MaxStepsReached)

C8_Witness ==
    /\ ExecuteJustFailed("model_call")
    /\ pc = "model"
    /\ sent[Len(sent)] = ExecErrorMessage

(***************************************************************************)
(* C9: the tool-result message is appended after the tool-request message  *)
(* that triggered it and before the next model call; no model call is      *)
(* issued between a request and its result, and at most one model call or  *)
(* tool execution is in flight at any time.                                *)
(***************************************************************************)
InFlight ==
    (Count(log, "model_call") - Count(log, "model_ret"))
    + (Count(log, "tool_call") - Count(log, "tool_ret"))

C9_ResultBetweenRequestAndNextCall ==
    /\ \A i \in 1..Len(log) : \A j \in (i + 1)..Len(log) :
          (log[i] = "append_req" /\ log[j] = "model_call")
             => \E k \in (i + 1)..(j - 1) : log[k] = "append_res"
    /\ \A k \in 1..Len(log) :
          log[k] = "append_res"
             => \E i \in 1..(k - 1) :
                   /\ log[i] = "append_req"
                   /\ \A j \in (i + 1)..(k - 1) :
                         log[j] \in {"tool_call", "tool_ret"}
    /\ InFlight \in {0, 1}
    /\ InFlight = 1 <=> pc \in {"model", "tool"}
    /\ pc = "model" =>
          /\ sent = messages
          /\ Count(log, "append_req") = Count(log, "append_res")
          /\ Len(messages) = initLen + Count(log, "append_req")
                + Count(log, "append_res") + Count(log, "append_msg")
    /\ pc = "tool" =>
          /\ messages[Len(messages)] = lastResp.msg
          /\ Count(log, "append_req") = Count(log, "append_res") + 1

C9_Witness ==
    /\ pc = "model"
    /\ Count(log, "append_res") = 2
    /\ messages[Len(messages) - 1].Role = RoleTool
    /\ messages[Len(messages)].Role = RoleTool

(***************************************************************************)
(* C10: parseToolCall treats the payload shapes {tool, arguments},         *)
(* {name, args} and {function.name, input} alike: for one tool name and    *)
(* one argument mapping it succeeds on each with that name and mapping.    *)
(***************************************************************************)
ShapesOf(x, a) == {ShapeTool(x, a), ShapeName(x, a), ShapeFunction(x, a)}

C10_AliasShapesEquivalent ==
    \A i \in 1..Len(parsed) :
        \A x \in {"calculator", "weather"}, a \in {"{a:1}", "{b:2}"} :
            parsed[i][1] \in ShapesOf(x, a)
               => parsed[i][2] = [ok |-> TRUE, Name |-> x, Args |-> Map(a)]

C10_Witness ==
    /\ Len(parsed) = 3
    /\ parsed[1][1] = ShapeTool("calculator", "{a:1}")
    /\ parsed[2][1] = ShapeName("calculator", "{a:1}")
    /\ parsed[3][1] = ShapeFunction("calculator", "{a:1}")
    /\ parsed[1][2] = parsed[2][2]
    /\ parsed[2][2] = parsed[3][2]
    /\ parsed[3][2].Name = "calculator"

(***************************************************************************)
(* C19                                                                     *)
(***************************************************************************)
IsPrefix(s, t) == Len(s) <= Len(t) /\ SubSeq(t, 1, Len(s)) = s

\* the step taken ends a loop iteration that goes on to the loop header:
\* the tool branch at the return of Execute, or a user / system answer
IterationContinues ==
    \/ pc = "tool"
    \/ /\ pc = "model"
       /\ lastResp'.kind = "msg"
       /\ lastResp'.msg.Role \in {RoleUser, RoleSystem}

\* C19: every step of Generate only appends to the history (the old history
\* is a prefix of the new one, at most one message longer inside the loop),
\* and the step counter grows by exactly one when an iteration ends in the
\* tool branch or in the user / system branch, each of which has appended
\* one message, and is unchanged by every other step of the loop.
C19_AppendOnlyUnitSteps ==
    [][/\ IsPrefix(messages, messages')
       /\ pc \in {"model", "tool"} =>
            /\ Len(messages') <= Len(messages) + 1
            /\ IF IterationContinues
               THEN /\ step' = step + 1
                    /\ Len(messages') = Len(messages) + 1
               ELSE step' = step]_vars

C19_Witness ==
    /\ pc = "model"
    /\ step = 2
    /\ others = 1
    /\ Count(log, "append_res") = 1
    /\ Len(messages) = initLen + 3

(***************************************************************************)
(* C17                                                                     *)
(***************************************************************************)
\* the events of the invocation logged after the context was cancelled
AfterCancel == SubSeq(log, atCancel.log + 1, Len(log))

\* C17: once the context is cancelled during Generate, no message is
\* appended to the history, no tool is executed and no model call is
\* started any more, and Generate returns the cancellation error.
C17_CancelStopsGenerate ==
    cancelled =>
        /\ Len(messages) = atCancel.len
        /\ Count(AfterCancel, "tool_call") = 0
        /\ Count(AfterCancel, "model_call") = 0
        /\ Returned => ret.err = ContextCanceled

(***************************************************************************)
(* C18                                                                     *)
(***************************************************************************)
\* the aliases of a payload in priority order
NameAliases(raw) ==
    <<raw.tool, raw.name,
      IF raw.function.t = "map" THEN raw.function.name ELSE Abs>>

ArgAliases(raw) == <<raw.arguments, raw.args, raw.input>>

NameMatches(a) == a.t = "str" /\ a.v # ""
ArgsMatch(a) == a.t = "map"

\* least index of a set of alias positions
First(S) == CHOOSE i \in S : \A j \in S : i <= j

DATA == "data: "
OPEN == "{\"choices\":[{\"delta\":{\"content\":\""
CLOSE == "\"}}]}"
DONE == "[DONE]"
NOCHOICE == "{\"choices\":[]}"
BADJSON == "{oops"
COLON == ":"
EVENT == "event: message"
CR == "\r"
NL == "\n"

ContentChars == {"x", "y"}

\* buf.ReadString('\n'): the bytes up to and including the first newline;
\* without a newline, all bytes of the buffer together with io.EOF.  Either
\* way the bytes returned are removed from the buffer.
ReadString(b) ==
    IF \E i \in 1..Len(b) : b[i] = NL
    THEN LET i == CHOOSE k \in 1..Len(b) :
                      b[k] = NL /\ \A j \in 1..(k - 1) : b[j] # NL
         IN  [line |-> SubSeq(b, 1, i), eof |-> FALSE,
              rest |-> SubSeq(b, i + 1, Len(b))]
    ELSE [line |-> b, eof |-> TRUE, rest |-> <<>>]

\* strings.TrimRight(line, "\r\n")
RECURSIVE TrimRight(_)
TrimRight(l) ==
    IF l # <<>> /\ l[Len(l)] \in {CR, NL}
    THEN TrimRight(SubSeq(l, 1, Len(l) - 1))
    ELSE l

\* json.Unmarshal of the data of a line into QWenStreamResponse and the
\* content of its first choice: ok is FALSE when the data is no JSON
Unmarshal(data) ==
    IF data = <<NOCHOICE>>
    THEN [ok |-> TRUE, choices |-> 0, content |-> <<>>]
    ELSE IF /\ Len(data) >= 2
            /\ data[1] = OPEN
            /\ data[Len(data)] = CLOSE
            /\ \A i \in 2..(Len(data) - 1) : data[i] \in ContentChars
    THEN [ok |-> TRUE, choices |-> 1,
          content |-> SubSeq(data, 2, Len(data) - 1)]
    ELSE [ok |-> FALSE, choices |-> 0, content |-> <<>>]

ClassifyUndecodableEnds(l) ==
    LET line == TrimRight(l)
        data == Tail(line)
        r == Unmarshal(data)
    IN  IF line = <<>> \/ line[1] = COLON THEN [kind |-> "skip", content |-> <<>>]
        ELSE IF line[1] # DATA THEN [kind |-> "skip", content |-> <<>>]
        ELSE IF data = <<DONE>> \/ ~r.ok THEN [kind |-> "done", content |-> <<>>]
        ELSE IF r.choices > 0 /\ r.content # <<>>
        THEN [kind |-> "fragment", content |-> r.content]
        ELSE [kind |-> "skip", content |-> <<>>]

ClassifySentinelAsData(l) ==
    LET line == TrimRight(l)
        data == Tail(line)
        r == Unmarshal(data)
    IN  IF line = <<>> \/ line[1] = COLON THEN [kind |-> "skip", content |-> <<>>]
        ELSE IF line[1] # DATA THEN [kind |-> "skip", content |-> <<>>]
        ELSE IF ~r.ok THEN [kind |-> "skip", content |-> <<>>]
        ELSE IF r.choices > 0 /\ r.content # <<>>
        THEN [kind |-> "fragment", content |-> r.content]
        ELSE [kind |-> "skip", content |-> <<>>]

\* what the decoder does with one complete line: skip it, end the stream,
\* or emit a fragment with the content of the first choice
Classify(l) ==
    LET line == TrimRight(l)
        data == Tail(line)
        r == Unmarshal(data)
    IN  IF line = <<>> \/ line[1] = COLON THEN [kind |-> "skip", content |-> <<>>]
        ELSE IF line[1] # DATA THEN [kind |-> "skip", content |-> <<>>]
        ELSE IF data = <<DONE>> THEN [kind |-> "done", content |-> <<>>]
        ELSE IF ~r.ok THEN [kind |-> "skip", content |-> <<>>]
        ELSE IF r.choices > 0 /\ r.content # <<>>
        THEN [kind |-> "fragment", content |-> r.content]
        ELSE [kind |-> "skip", content |-> <<>>]

\* capacity of msgChan
MsgChanCap == 10

\* fmt.Errorf("failed to read stream: %w", err)
ReadError == "read error"
FailedToReadStream(e) == [wrap |-> "failed to read stream", err |-> e]

\* ctx.Err() after cancellation
CtxErr == [wrap |-> "", err |-> ContextCanceled]

(***************************************************************************)
(* HTTPClient.SendStream: the transport worker.  out is unbuffered, errs   *)
(* holds one error; the deferred calls close errs first, then out.         *)
(***************************************************************************)
StreamCase(chunk) == [NoWake EXCEPT !.case = "stream", !.ok = TRUE,
                                    !.chunk = chunk]
StreamClosed == [NoWake EXCEPT !.case = "stream"]
ErrsCase(e) == [NoWake EXCEPT !.case = "errs", !.ok = TRUE, !.err = e]
ErrsClosed == [NoWake EXCEPT !.case = "errs"]
CtxCase == [NoWake EXCEPT !.case = "ctx"]

\* a channel operation makes case c of the decoder's select ready: a
\* decoder parked in the select is woken with exactly that case
Wake(c) ==
    IF dpc = "parked"
    THEN dpc' = "woken" /\ dwake' = c
    ELSE UNCHANGED <<dpc, dwake>>

\* resp.Body.Read returns n > 0 bytes: the chunk is to be sent on out
TReadChunk ==
    /\ tpc = "read"
    /\ source # <<>>
    /\ tchunk' = Head(source)
    /\ source' = Tail(source)
    /\ tpc' = "send"
    /\ UNCHANGED <<agentVars, ctxVars, terminal, errs, errsClosed, outClosed,
                   dpc, dwake, buf, msgCount, emitted, msgClosed, errChan,
                   errClosed, chunksRead, doneSeen, consuming, cancelWaiting,
                   whole>>

\* resp.Body.Read returns io.EOF: the worker returns
TReadEOF ==
    /\ tpc = "read"
    /\ source = <<>>
    /\ terminal = "EOF"
    /\ tpc' = "closeErrs"
    /\ UNCHANGED <<agentVars, ctxVars, source, terminal, tchunk, errs,
                   errsClosed, outClosed, dpc, dwake, buf, msgCount, emitted,
                   msgClosed, errChan, errClosed, chunksRead, doneSeen,
                   consuming, cancelWaiting, whole>>

\* resp.Body.Read fails, with the transport's error at the end of the
\* source or with the context's error once the context is cancelled: the
\* error is sent on errs and the worker returns
TReadError ==
    /\ tpc = "read"
    /\ \E e \in {ReadError, ContextCanceled} :
          /\ e = ReadError => (source = <<>> /\ terminal = "err")
          /\ e = ContextCanceled => cancelled
          /\ errs' = IF dpc = "parked" THEN errs ELSE Append(errs, e)
          /\ Wake(ErrsCase(e))
    /\ tpc' = "closeErrs"
    /\ UNCHANGED <<agentVars, ctxVars, source, terminal, tchunk, errsClosed,
                   outClosed, buf, msgCount, emitted, msgClosed, errChan,
                   errClosed, chunksRead, doneSeen, consuming, cancelWaiting,
                   whole>>

\* out <- chunk while the decoder is parked in its select: the chunk is
\* handed over and the decoder is woken with the stream case
TSend ==
    /\ tpc = "send"
    /\ dpc = "parked"
    /\ Wake(StreamCase(tchunk))
    /\ tchunk' = <<>>
    /\ tpc' = "read"
    /\ UNCHANGED <<agentVars, ctxVars, source, terminal, errs, errsClosed,
                   outClosed, buf, msgCount, emitted, msgClosed, errChan,
                   errClosed, chunksRead, doneSeen, consuming, cancelWaiting,
                   whole>>

\* deferred close(errs)
TCloseErrs ==
    /\ tpc = "closeErrs"
    /\ errsClosed' = TRUE
    /\ Wake(ErrsClosed)
    /\ tpc' = "closeOut"
    /\ UNCHANGED <<agentVars, ctxVars, source, terminal, tchunk, errs,
                   outClosed, buf, msgCount, emitted, msgClosed, errChan,
                   errClosed, chunksRead, doneSeen, consuming, cancelWaiting,
                   whole>>

\* deferred close(out)
TCloseOut ==
    /\ tpc = "closeOut"
    /\ outClosed' = TRUE
    /\ Wake(StreamClosed)
    /\ tpc' = "done"
    /\ UNCHANGED <<agentVars, ctxVars, source, terminal, tchunk, errs,
                   errsClosed, buf, msgCount, emitted, msgClosed, errChan,
                   errClosed, chunksRead, doneSeen, consuming, cancelWaiting,
                   whole>>

(***************************************************************************)
(* QWenModelClient.Stream: the decoder worker.  msgChan holds MsgChanCap   *)
(* fragments, errChan one error; the deferred calls close errChan first,   *)
(* then msgChan.                                                           *)
(***************************************************************************)
DReturnClosingTwice(ec) ==
    /\ dpc' = "done"
    /\ errChan' = ec
    /\ errClosed' = errClosed + 1
    /\ msgClosed' = msgClosed + 2

\* a return of the worker with ec the errors sent so far: both deferred
\* closes run
DReturn(ec) ==
    /\ dpc' = "done"
    /\ errChan' = ec
    /\ errClosed' = errClosed + 1
    /\ msgClosed' = msgClosed + 1

RunIgnoringCancel(c) ==
    IF c.case = "stream" /\ c.ok
    THEN /\ buf' = buf \o c.chunk
         /\ chunksRead' = chunksRead + 1
         /\ dpc' = "lines"
         /\ UNCHANGED <<errChan, errClosed, msgClosed>>
    ELSE /\ DReturn(IF c.case = "errs" /\ c.ok
                    THEN Append(errChan, FailedToReadStream(c.err))
                    ELSE errChan)
         /\ UNCHANGED <<buf, chunksRead>>

\* the body of the select case c
Run(c) ==
    IF c.case = "stream" /\ c.ok
    THEN /\ buf' = buf \o c.chunk
         /\ chunksRead' = chunksRead + 1
         /\ dpc' = "lines"
         /\ UNCHANGED <<errChan, errClosed, msgClosed>>
    ELSE /\ DReturn(IF c.case = "errs" /\ c.ok
                    THEN Append(errChan, FailedToReadStream(c.err))
                    ELSE IF c.case = "ctx" THEN Append(errChan, CtxErr)
                    ELSE errChan)
         /\ UNCHANGED <<buf, chunksRead>>

StreamReady == tpc = "send" \/ outClosed
ErrsReady == errs # <<>> \/ errsClosed
CtxReady == cancelled

\* the select finds no case ready: the worker parks on all three channels
DPark ==
    /\ dpc = "select"
    /\ ~StreamReady /\ ~ErrsReady /\ ~CtxReady
    /\ dpc' = "parked"
    /\ UNCHANGED <<agentVars, ctxVars, source, terminal, tpc, tchunk, errs,
                   errsClosed, outClosed, dwake, buf, msgCount, emitted,
                   msgClosed, errChan, errClosed, chunksRead, doneSeen,
                   consuming, cancelWaiting, whole>>

\* the select finds the stream case ready (a sender waiting on out, or out
\* closed) and chooses it
DPollStream ==
    /\ dpc = "select"
    /\ StreamReady
    /\ IF tpc = "send"
       THEN /\ Run(StreamCase(tchunk))
            /\ tchunk' = <<>>
            /\ tpc' = "read"
       ELSE /\ Run(StreamClosed)
            /\ UNCHANGED <<tchunk, tpc>>
    /\ UNCHANGED <<agentVars, ctxVars, source, terminal, errs, errsClosed,
                   outClosed, dwake, msgCount, emitted, doneSeen, consuming,
                   cancelWaiting, whole>>

\* the select finds the error case ready (an error buffered in errs, or
\* errs closed) and chooses it
DPollErrs ==
    /\ dpc = "select"
    /\ ErrsReady
    /\ IF errs # <<>>
       THEN /\ Run(ErrsCase(Head(errs)))
            /\ errs' = Tail(errs)
       ELSE /\ Run(ErrsClosed)
            /\ errs' = errs
    /\ UNCHANGED <<agentVars, ctxVars, source, terminal, tpc, tchunk,
                   errsClosed, outClosed, dwake, msgCount, emitted, doneSeen,
                   consuming, cancelWaiting, whole>>

\* the select finds ctx.Done() ready and chooses it
DPollCtx ==
    /\ dpc = "select"
    /\ CtxReady
    /\ Run(CtxCase)
    /\ UNCHANGED <<agentVars, ctxVars, source, terminal, tpc, tchunk, errs,
                   errsClosed, outClosed, dwake, msgCount, emitted, doneSeen,
                   consuming, cancelWaiting, whole>>

\* a worker woken from the select runs the case it was woken with
DWoken ==
    /\ dpc = "woken"
    /\ Run(dwake)
    /\ dwake' = NoWake
    /\ UNCHANGED <<agentVars, ctxVars, source, terminal, tpc, tchunk, errs,
                   errsClosed, outClosed, msgCount, emitted, doneSeen,
                   consuming, cancelWaiting, whole>>

\* the worker is at msgChan <- fragment and the buffer of msgChan is full
BlockedOnSend ==
    /\ dpc = "lines"
    /\ ~ReadString(buf).eof
    /\ Classify(ReadString(buf).line).kind = "fragment"
    /\ msgCount = MsgChanCap

\* one turn of the inner loop: the next line is read from the buffer and
\* skipped, ends the stream, or is sent as a fragment on msgChan
DLine ==
    /\ dpc = "lines"
    /\ LET r == ReadString(buf)
           k == Classify(r.line)
       IN  /\ buf' = r.rest
           /\ IF r.eof
              THEN /\ dpc' = "select"
                   /\ UNCHANGED <<msgCount, emitted, doneSeen, errChan,
                                  errClosed, msgClosed>>
              ELSE IF k.kind = "done"
              THEN /\ doneSeen' = TRUE
                   /\ DReturn(errChan)
                   /\ UNCHANGED <<msgCount, emitted>>
              ELSE IF k.kind = "fragment"
              THEN /\ msgCount < MsgChanCap
                   /\ msgCount' = msgCount + 1
                   /\ emitted' = Append(emitted, k.content)
                   /\ UNCHANGED <<dpc, doneSeen, errChan, errClosed,
                                  msgClosed>>
              ELSE UNCHANGED <<dpc, msgCount, emitted, doneSeen, errChan,
                               errClosed, msgClosed>>
    /\ UNCHANGED <<agentVars, ctxVars, source, terminal, tpc, tchunk, errs,
                   errsClosed, outClosed, dwake, chunksRead, consuming,
                   cancelWaiting, whole>>

(***************************************************************************)
(* The consumer of the two channels returned by Stream.                    *)
(***************************************************************************)
\* the consumer receives one fragment from msgChan
ConsumerRecv ==
    /\ consuming
    /\ msgCount > 0
    /\ msgCount' = msgCount - 1
    /\ UNCHANGED <<agentVars, ctxVars, source, terminal, tpc, tchunk, errs,
                   errsClosed, outClosed, dpc, dwake, buf, emitted, msgClosed,
                   errChan, errClosed, chunksRead, doneSeen, consuming,
                   cancelWaiting, whole>>

\* the consumer stops receiving
ConsumerStops ==
    /\ consuming
    /\ dpc # "off"
    /\ consuming' = FALSE
    /\ UNCHANGED <<agentVars, ctxVars, source, terminal, tpc, tchunk, errs,
                   errsClosed, outClosed, dpc, dwake, buf, msgCount, emitted,
                   msgClosed, errChan, errClosed, chunksRead, doneSeen,
                   cancelWaiting, whole>>

(***************************************************************************)
(* Streams: byte sources, their splits into chunks, and the specifications *)
(* of a Stream call.                                                       *)
(***************************************************************************)
\* most chunks a byte source is split into
MaxChunks == 3

DataLine(c) == <<DATA, OPEN>> \o c \o <<CLOSE, NL>>
DoneLine == <<DATA, DONE, NL>>

\* two events separated by a blank line
TwoEvents == DataLine(<<"x">>) \o <<NL>> \o DataLine(<<"y">>)

\* the sentinel between two events
SentinelInside == DataLine(<<"x">>) \o DoneLine \o DataLine(<<"y">>)

\* a comment, a line without the prefix, undecodable data, an object
\* without choices ended by CR LF, then an event
SkippedLines ==
    <<COLON, NL, EVENT, NL, DATA, BADJSON, NL, DATA, NOCHOICE, CR, NL>>
    \o DataLine(<<"x", "y">>)

\* an event with empty content, an event, and an event whose line is not
\* ended by a newline when the source ends
PartialTail ==
    <<DATA, OPEN, CLOSE, NL>> \o DataLine(<<"x">>)
    \o <<DATA, OPEN, "y", CLOSE>>

Wholes == {TwoEvents, SentinelInside, SkippedLines, PartialTail}

\* increasing sequences of at most k cut positions within lo..hi
RECURSIVE CutSeqs(_, _, _)
CutSeqs(k, lo, hi) ==
    {<<>>} \cup
    IF k = 0 THEN {}
    ELSE UNION { { <<i>> \o s : s \in CutSeqs(k - 1, i + 1, hi) } :
                 i \in lo..hi }

\* the chunks of w cut after the positions of cuts
ChunksOf(w, cuts) ==
    [i \in 1..(Len(cuts) + 1) |->
        SubSeq(w, IF i = 1 THEN 1 ELSE cuts[i - 1] + 1,
                  IF i = Len(cuts) + 1 THEN Len(w) ELSE cuts[i])]

\* every way resp.Body.Read may deliver w in at most MaxChunks chunks
Splits(w) == { ChunksOf(w, c) : c \in CutSeqs(MaxChunks - 1, 1, Len(w) - 1) }

RECURSIVE Flatten(_)
Flatten(chunks) ==
    IF chunks = <<>> THEN <<>> ELSE Head(chunks) \o Flatten(Tail(chunks))

RECURSIVE Repeat(_, _)
Repeat(l, n) == IF n = 0 THEN <<>> ELSE l \o Repeat(l, n - 1)

\* Stream has started both workers: the transport worker is about to read,
\* the decoder is at its select
StreamStarted(chunks, t) ==
    /\ source = chunks
    /\ whole = chunks
    /\ terminal = t
    /\ tpc = "read"
    /\ tchunk = <<>>
    /\ errs = <<>>
    /\ errsClosed = FALSE
    /\ outClosed = FALSE
    /\ dpc = "select"
    /\ dwake = NoWake
    /\ buf = <<>>
    /\ msgCount = 0
    /\ emitted = <<>>
    /\ msgClosed = 0
    /\ errChan = <<>>
    /\ errClosed = 0
    /\ chunksRead = 0
    /\ doneSeen = FALSE
    /\ consuming = TRUE
    /\ cancelWaiting = FALSE

\* the agent is not invoked while the stream runs
AgentIdle ==
    AgentInit({[MaxStep |-> 0, Model |-> "chat", Tools |-> <<>>]}, {<<>>},
              LoopPayloads, 0)

\* a Stream call over every split of the byte sources, read to the end by
\* its consumer
InitDecode ==
    /\ AgentIdle
    /\ \E w \in Wholes : \E chunks \in Splits(w) :
          \E t \in {"EOF", "err"} : StreamStarted(chunks, t)

NextDecode ==
    \/ TReadChunk
    \/ TReadEOF
    \/ TReadError
    \/ TSend
    \/ TCloseErrs
    \/ TCloseOut
    \/ DPark
    \/ DPollStream
    \/ DPollErrs
    \/ DWoken
    \/ DLine
    \/ ConsumerRecv

SpecDecode == InitDecode /\ [][NextDecode]_vars

\* chunked sources of the concurrent runs: two events in two chunks, the
\* sentinel followed by a further chunk, and more events in one chunk than
\* msgChan holds
StreamSources ==
    { <<DataLine(<<"x">>), DataLine(<<"y">>)>>,
      <<DataLine(<<"x">>) \o DoneLine, DataLine(<<"y">>)>>,
      <<Repeat(DataLine(<<"x">>), MsgChanCap + 1)>> }

\* a Stream call whose context may be cancelled and whose consumer may stop
\* receiving
InitStream ==
    /\ AgentIdle
    /\ \E chunks \in StreamSources :
          \E t \in {"EOF", "err"} : StreamStarted(chunks, t)

NextStream ==
    \/ TReadChunk
    \/ TReadEOF
    \/ TReadError
    \/ TSend
    \/ TCloseErrs
    \/ TCloseOut
    \/ DPark
    \/ DPollStream
    \/ DPollErrs
    \/ DPollCtx
    \/ DWoken
    \/ DLine
    \/ ConsumerRecv
    \/ ConsumerStops
    \/ Cancel

SpecStream == InitStream /\ [][NextStream]_vars

\* the fragments of a byte string delivered in one piece: what the inner
\* loop emits for its complete lines up to the sentinel
RECURSIVE Decode(_)
Decode(b) ==
    LET r == ReadString(b)
        k == Classify(r.line)
    IN  IF r.eof \/ k.kind = "done" THEN <<>>
        ELSE IF k.kind = "fragment" THEN <<k.content>> \o Decode(r.rest)
        ELSE Decode(r.rest)

StreamTypeOK ==
    /\ tpc \in {"off", "read", "send", "closeErrs", "closeOut", "done"}
    /\ dpc \in {"off", "select", "parked", "woken", "lines", "done"}
    /\ msgCount \in 0..MsgChanCap
    /\ Len(errs) <= 1
    /\ Len(errChan) <= 1
    /\ dpc = "parked" => (~outClosed /\ ~ErrsReady /\ ~CtxReady)

(***************************************************************************)
(* C11                                                                     *)
(***************************************************************************)
\* the decoder has returned after the transport delivered the whole source
\* and ended with EOF, or after the sentinel
EndedCleanly ==
    /\ dpc = "done"
    /\ terminal = "EOF"
    /\ ~cancelled
    /\ errChan = <<>>

\* C11: however the byte source is split into chunks, also in the middle of
\* a line, the fragments emitted by the decoder are those it emits for the
\* same bytes delivered in one chunk.
C11_SplitsDecodeAlike ==
    EndedCleanly => emitted = Decode(Flatten(whole))

(***************************************************************************)
(* C12                                                                     *)
(***************************************************************************)
\* the decoder is about to read a complete line that is the sentinel
AtSentinelLine ==
    /\ dpc = "lines"
    /\ ~ReadString(buf).eof
    /\ TrimRight(ReadString(buf).line) = <<DATA, DONE>>

\* C12: when the decoder reads a complete line that is exactly the
\* sentinel, it returns in that step with no error sent and both of its
\* channels closed, whatever lines follow in the buffer and whatever chunks
\* the transport still holds; after its return nothing is emitted and no
\* error is sent.
C12_SentinelEndsStream ==
    [][/\ (AtSentinelLine /\ buf' # buf) =>
            /\ dpc' = "done"
            /\ emitted' = emitted
            /\ errChan' = <<>>
            /\ errClosed' = 1
            /\ msgClosed' = 1
       /\ dpc = "done" =>
            /\ emitted' = emitted
            /\ errChan' = errChan
            /\ dpc' = "done"]_vars

C12_Witness ==
    /\ doneSeen
    /\ dpc = "done"
    /\ buf # <<>>
    /\ tpc = "send"
    /\ emitted = <<<<"x">>>>
    /\ errChan = <<>>
    /\ errClosed = 1
    /\ msgClosed = 1

(***************************************************************************)
(* C13                                                                     *)
(***************************************************************************)
\* C13: on every exit path of the decoder worker (end of input, sentinel,
\* transport error, cancellation) msgChan and errChan are each closed
\* exactly once: the close counts never exceed one, both are one exactly
\* when the worker has returned, and once a channel is closed nothing more
\* is sent on it.
C13_ClosedExactlyOnce ==
    [][/\ msgClosed' <= 1
       /\ errClosed' <= 1
       /\ dpc' = "done" <=> (msgClosed' = 1 /\ errClosed' = 1)
       /\ dpc' # "done" => (msgClosed' = 0 /\ errClosed' = 0)
       /\ msgClosed >= 1 => (emitted' = emitted /\ msgClosed' = msgClosed)
       /\ errClosed >= 1 => (errChan' = errChan /\ errClosed' = errClosed)]_vars

C13_Witness ==
    /\ dpc = "done"
    /\ cancelled
    /\ errChan = <<CtxErr>>
    /\ emitted # <<>>
    /\ msgClosed = 1
    /\ errClosed = 1

\* the four exit paths of the worker
ExitAtEndOfInput == dpc = "done" /\ errChan = <<>> /\ ~doneSeen /\ ~cancelled
ExitAtSentinel == dpc = "done" /\ doneSeen
ExitAtTransportError ==
    dpc = "done" /\ errChan = <<FailedToReadStream(ReadError)>>
ExitAtCancellation == dpc = "done" /\ errChan = <<CtxErr>>

(***************************************************************************)
(* C14                                                                     *)
(***************************************************************************)
\* C14: when the context is cancelled while the decoder is parked in its
\* select waiting for the next chunk, the decoder is woken with the
\* cancellation case and nothing the transport worker does afterwards
\* changes that: when it has run, both decoder channels are closed and the
\* one error sent on errChan is the context's error.
C14_CancelWhileWaiting ==
    cancelWaiting =>
        \/ /\ dpc = "woken"
           /\ dwake = CtxCase
           /\ errChan = <<>>
        \/ /\ dpc = "done"
           /\ errChan = <<CtxErr>>
           /\ errClosed = 1
           /\ msgClosed = 1

\* the decoder has returned the context's error although the transport
\* worker had its own error ready on errs
C14_Witness ==
    /\ cancelWaiting
    /\ dpc = "done"
    /\ errs = <<ContextCanceled>>
    /\ errsClosed
    /\ errChan = <<CtxErr>>
    /\ msgClosed = 1

(***************************************************************************)
(* C15                                                                     *)
(***************************************************************************)
\* C15: when the byte source ends with a read error and the stream was
\* neither cancelled nor ended by the sentinel, the decoder has sent
\* exactly one error, the wrapped transport error, when it returns.
C15_TransportErrorDelivered ==
    (dpc = "done" /\ terminal = "err" /\ ~cancelled /\ ~doneSeen) =>
        errChan = <<FailedToReadStream(ReadError)>>

(***************************************************************************)
(* C16                                                                     *)
(***************************************************************************)
\* the transport worker is at out <- chunk and the decoder, the only
\* receiver of out, has returned
TransportStuck == tpc = "send" /\ dpc = "done"

\* the decoder is at msgChan <- fragment with msgChan full and the
\* consumer, the only receiver of msgChan, has stopped receiving
DecoderStuck == BlockedOnSend /\ ~consuming

\* C16: no worker is ever left in a send that nobody can receive any more,
\* so that every worker can still terminate and close its channels: the
\* transport worker is never at its send on out after the decoder has
\* returned, and the decoder is never at its send on a full msgChan after
\* the consumer has stopped receiving.
C16_NoWorkerStuckInSend ==
    ~TransportStuck /\ ~DecoderStuck

(***************************************************************************)
(* C20                                                                     *)
(***************************************************************************)
\* a line the decoder has to skip: blank, a comment, without the data
\* prefix, or with data that is neither the sentinel nor decodable
Skippable(l) ==
    LET line == TrimRight(l)
    IN  \/ line = <<>>
        \/ line[1] = COLON
        \/ line[1] # DATA
        \/ /\ line[1] = DATA
           /\ Tail(line) # <<DONE>>
           /\ ~Unmarshal(Tail(line)).ok

\* C20: a source that ends with EOF and holds no sentinel is read to its
\* last chunk and ends the stream with both decoder channels closed and no
\* error; the step that reads a blank, comment, prefix-less or undecodable
\* line leaves the worker in its line loop, sends no error and emits
\* nothing.
C20_EOFAndSkippedLines ==
    [][/\ (dpc' = "done" /\ terminal = "EOF" /\ ~cancelled) =>
            /\ errChan' = <<>>
            /\ errClosed' = 1
            /\ msgClosed' = 1
            /\ ~doneSeen' => chunksRead' = Len(whole)
       /\ (/\ dpc = "lines"
           /\ ~ReadString(buf).eof
           /\ Skippable(ReadString(buf).line)
           /\ buf' # buf) =>
            /\ dpc' = "lines"
            /\ errChan' = errChan
            /\ emitted' = emitted]_vars

C20_Witness ==
    /\ dpc = "done"
    /\ terminal = "EOF"
    /\ Flatten(whole) = SkippedLines
    /\ Len(whole) = MaxChunks
    /\ chunksRead = Len(whole)
    /\ emitted = <<<<"x", "y">>>>
    /\ errChan = <<>>
    /\ errClosed = 1
    /\ msgClosed = 1

(***************************************************************************)
(* C21                                                                     *)
(***************************************************************************)
\* the positions of conf.Tools registered under name n
Registered(n) == { i \in 1..Len(conf.Tools) : conf.Tools[i] = n }

\* C21: after NewReactAgent no two tools of the agent share a name, so a
\* name resolves to at most one registered tool.
C21_ToolNamesUnique ==
    \A i \in 1..Len(conf.Tools) : Registered(conf.Tools[i]) = {i}

(***************************************************************************)
(* C22                                                                     *)
(***************************************************************************)
\* number of messages the current invocation has appended after its input
Produced ==
    Count(log, "append_req") + Count(log, "append_res")
        + Count(log, "append_msg")

\* C22: the history handed to a model call is the input of the current
\* invocation followed by the messages this invocation has produced, and
\* nothing else, also on an agent that has served earlier invocations.
C22_HistoryOfThisInvocationOnly ==
    pc = "model" =>
        /\ Len(sent) = Len(input) + Produced
        /\ SubSeq(sent, 1, Len(input)) = input

(***************************************************************************)
(* C23                                                                     *)
(***************************************************************************)
\* C23: while a model call of the agent is in flight, the catalog the
\* ChatModel hands to its client is the agent's own tool list in
\* registration order, whatever other agents were constructed over the
\* same ChatModel.
C23_OwnCatalogAdvertised ==
    pc = "model" => modelTools = conf.Tools

(***************************************************************************)
(* C24                                                                     *)
(***************************************************************************)
\* C24: with the QWen client as backend every successful model call
\* returns an assistant message, so Generate returns that message after
\* its first successful call: no tool request is appended, no tool is
\* executed and no second model call follows.
C24_QWenNeverDispatches ==
    conf.Model = "qwen" =>
        /\ pc # "tool"
        /\ ToolExecutions = 0
        /\ Count(log, "append_req") = 0
        /\ ModelCalls <= 1
        /\ lastResp.kind \in {"none", "err", "msg"}
        /\ lastResp.kind = "msg" =>
              /\ lastResp.msg.Role = RoleAssistant
              /\ Returned
              /\ ret.msg = lastResp.msg
              /\ ret.err = ""

\* the QWen answer was a well-formed request for a registered tool, as the
\* content of an assistant message
C24_Witness ==
    /\ conf.Model = "qwen"
    /\ conf.Tools = <<"calculator">>
    /\ Returned
    /\ lastResp.kind = "msg"
    /\ parseToolCall(lastResp.msg.Content).Name = "calculator"
    /\ ModelCalls = 1

(***************************************************************************)
(* C25                                                                     *)
(***************************************************************************)
\* C25: when every model call and every tool execution returns, an
\* invocation that has started its loop eventually returns, whatever
\* tool-role, user-role or system-role answers the model gives, and the
\* loop counter never exceeds the budget.
C25_GenerateTerminates ==
    /\ [](pc \in {"model", "tool"} => <>Returned)
    /\ [](step <= IF conf.MaxStep > 0 THEN conf.MaxStep ELSE 0)

\* the budget was used up by a tool iteration and a user or system answer
C25_Witness ==
    /\ Returned
    /\ conf.MaxStep = MaxOffPath
    /\ step = conf.MaxStep
    /\ ModelCalls = conf.MaxStep
    /\ others >= 1
    /\ ToolExecutions >= 1
    /\ ret.msg = Message(RoleAssistant, MaxStepsReached)

====
